---- MODULE Spec2Model ----
(***************************************************************************)
(* State-machine model of the momem simulation interface                   *)
(* (src/momem/__init__.py, src/momem/ads/ads.py, src/momem/emx/emx.py,     *)
(* src/momem/momem_simcmd.py).                                             *)
(*                                                                         *)
(* Conventions                                                             *)
(*   - a Python value that may be None, or an attribute that may be unset, *)
(*     is a sequence of length <= 1: << >> is None / unset, <<v>> is v;    *)
(*   - a file name is a sequence of one-character strings, so that         *)
(*     os.path.splitext and glob are computed, not assumed;                *)
(*   - a shell command is a sequence of words (strings);                   *)
(*   - thesdk.print_log(type='F') logs the entry and quits (SystemExit),   *)
(*     which a bare "except:" catches; log holds the entries of type W, E  *)
(*     and F (the informational entries of type I are left out);          *)
(*   - an attribute the code reads but no class defines (ads_submission    *)
(*     of ads, result_filename of momem, surface_metals of momem_simcmd)   *)
(*     exists only when the entity assigned it: entityAttrs holds the      *)
(*     ones assigned, and reading another one raises AttributeError;       *)
(*   - an external command succeeds or fails, chosen at each execution;    *)
(*   - the entity of Spec has given itself name, libname and cellname, so  *)
(*     that the reads of the run store nothing; SpecConfig is the entity   *)
(*     on which the accessors are called in any order;                     *)
(*   - a text (emStateFile.xml, a value written into it) is a sequence of  *)
(*     atoms: a number is held digit by digit, a tag or a placeholder word *)
(*     is one atom, so that sed finds a placeholder inside a value.        *)
(***************************************************************************)
EXTENDS Integers, Sequences, FiniteSets, TLC

VARIABLES
    model,                \* thesdk.model of the entity
    load_state,           \* thesdk.load_state of the entity
    environ,              \* names defined in os.environ
    GLOBALS,              \* thesdk.GLOBALS (LSFINTERACTIVE, LSFSUBMISSION)
    linkScript,           \* os.path.exists(<entitypath>/link_oa_design.sh)
    entityAttrs,          \* attributes the entity assigned besides the class's own
    preserve_momemfiles,  \* momem._preserve_momemfiles (option)
    distributed_run,      \* momem._distributed_run (option)
    interactive_momem,    \* momem._interactive_momem (option)
    num_processes,        \* momem._num_processes (option)
    nameAttr,             \* momem._name (option)
    libnameAttr,          \* momem._libname (option)
    cellnameAttr,         \* momem._cellname (option)
    momem_submission,     \* momem._momem_submission (option)
    has_lsf,              \* momem._has_lsf (option)
    momemsimpathSet,      \* hasattr(self, '_momemsimpath')
    simcmd_bundle,        \* Bundle.Members, in insertion order
    nSimcmd,              \* number of momem_simcmd objects constructed
    files,                \* entries of the directory momemsimpath
    srcfiles,             \* entries of the directory emsetupsrcpath
    emStateFile,          \* text of <emsetupsrcpath>/emStateFile.xml
    executed,             \* external commands run so far, with their outcome
    log,                  \* print_log entries
    pc,                   \* position of the (single) thread of control
    idx,                  \* loop index of ads.set_simulation_options
    exc,                  \* the exception that ended the call ("" when none)
    events,               \* calls and returns of the steps of run_momem
    extracts,             \* extracts.Members['net']: the file read (option)
    filesAtRead,          \* the entries of momemsimpath when the results were read
    assigned,             \* per property, the value last given to its setter (option)
    lastCall              \* the last constructor or accessor call and what it returned

vars == <<model, load_state, environ, GLOBALS, linkScript, entityAttrs,
          preserve_momemfiles, distributed_run, interactive_momem,
          momem_submission, has_lsf, momemsimpathSet, simcmd_bundle, nSimcmd,
          files, srcfiles, emStateFile, executed, log, pc, idx, exc, events,
          extracts, filesAtRead, num_processes, nameAttr, libnameAttr,
          cellnameAttr, assigned, lastCall>>

(***************************************************************************)
(* Bounds of the model.                                                    *)
(***************************************************************************)
\* momem_simcmd objects constructed before the run
MaxSimcmd == 2

(***************************************************************************)
(* Generic helpers.                                                        *)
(***************************************************************************)
None == << >>

Some(v) == <<v>>

IsNone(o) == o = << >>

\* dict.get(key, default) on keyword arguments given as a record
Get(kw, k, d) == IF k \in DOMAIN kw THEN kw[k] ELSE d

\* kwargs.get(key, None)
GetOpt(kw, k) == IF k \in DOMAIN kw THEN Some(kw[k]) ELSE None

Range(s) == {s[i] : i \in DOMAIN s}

\* the strings of a sequence joined into one string
RECURSIVE Join(_)
Join(n) == IF n = << >> THEN "" ELSE n[1] \o Join(Tail(n))

\* the character of a decimal digit
Digit(d) == <<"0", "1", "2", "3", "4", "5", "6", "7", "8", "9">>[d + 1]

\* the characters of str(n) for an integer n
RECURSIVE Digits(_)
Digits(n) ==
    IF n < 0 THEN <<"-">> \o Digits(-n)
    ELSE IF n < 10 THEN <<Digit(n)>>
    ELSE Digits(n \div 10) \o <<Digit(n % 10)>>

\* str(n), as f'{n}' formats an integer
ToStr(n) == Join(Digits(n))

(***************************************************************************)
(* File names.                                                             *)
(***************************************************************************)
\* index of the last "." of a name, 0 when there is none
LastDot(n) ==
    LET D == {i \in 1..Len(n) : n[i] = "."}
    IN  IF D = {} THEN 0 ELSE CHOOSE i \in D : \A j \in D : j <= i

\* number of leading "." of a name
LeadingDots(n) ==
    LET P == {k \in 0..Len(n) : \A i \in 1..k : n[i] = "."}
    IN  CHOOSE k \in P : \A j \in P : j <= k

\* os.path.splitext(name)[1]: from the last dot on, unless that dot leads the name
SplitextExt(n) ==
    IF LastDot(n) > LeadingDots(n) THEN SubSeq(n, LastDot(n), Len(n)) ELSE << >>

\* os.path.splitext(name)[0]
SplitextRoot(n) ==
    IF LastDot(n) > LeadingDots(n) THEN SubSeq(n, 1, LastDot(n) - 1) ELSE n

\* glob match of a name against <prefix>*<suffix>
GlobMatch(n, prefix, suffix) ==
    /\ Len(n) >= Len(prefix) + Len(suffix)
    /\ SubSeq(n, 1, Len(prefix)) = prefix
    /\ SubSeq(n, Len(n) - Len(suffix) + 1, Len(n)) = suffix

File(n) == [name |-> n, dir |-> FALSE]

Dir(n) == [name |-> n, dir |-> TRUE]

\* os.path.splitext(os.path.basename(self._classfile))[0]
DefaultName == <<"x">>

\* the value the getter momem.name returns
name == IF IsNone(nameAttr) THEN DefaultName ELSE nameAttr[1]

\* the value the getter momem.libname returns: defaults to name
libname == IF IsNone(libnameAttr) THEN name ELSE libnameAttr[1]

\* the value the getter momem.cellname returns: defaults to name
cellname == IF IsNone(cellnameAttr) THEN name ELSE cellnameAttr[1]

\* momem.result_filenames: tb_<name>
result_filenames == <<"t", "b", "_">> \o name

\* thesdk.simpath, the value momemsimpath takes
simpath == "SIM"

\* <momemsimpath>/<file name>
InSimpath(n) == simpath \o "/" \o Join(n)

(***************************************************************************)
(* Inputs.                                                                 *)
(***************************************************************************)
Models == {"ads", "emx", "py"}

\* ads.check_environment_variables
AdsEnvVars == {"VIRTUOSO_DIR", "ADSSUBSTRATEFILE", "EMSTATEFILE"}

\* emx.check_environment_variables
EmxEnvVars == {"VIRTUOSO_DIR", "EMX_PROC", "TECHLIB", "LAYERMAP_PATH"}

AllEnvVars == AdsEnvVars \cup EmxEnvVars

\* environments: complete, or lacking exactly one variable
Environments == {AllEnvVars} \cup {AllEnvVars \ {v} : v \in AllEnvVars}

LsfValues == [LSFINTERACTIVE : {"", "bsub -I"}, LSFSUBMISSION : {"", "bsub -K"}]

\* a keyword argument of a list parameter: a Python list, or any other value
PyList(elts) == [list |-> elts]

PyScalar(v) == [scalar |-> v]

\* type(v) == list
IsPyList(v) == "list" \in DOMAIN v

\* keyword arguments given to momem_simcmd(parent, **kwargs)
KwargsInputs ==
    { [swpstart |-> 0, swpstop |-> 4, swpstep |-> 2],
      [swpstart |-> 0, swpstop |-> 5, swpstep |-> 2, TL_mesh_cells |-> 3],
      [swpvalues |-> PyList(<<1, 3>>), swpstop |-> 4, swpstep |-> 2],
      [swpstop |-> 4],
      [swpstep |-> 2],
      [swpstop |-> -1, swpstep |-> 2],
      [sim |-> "dc", swpstart |-> 0, swpstop |-> 6, swpstep |-> 3],
      [swpstart |-> 0, swpstop |-> 1212, swpstep |-> 3],
      [swpvalues |-> PyScalar(3), impedance |-> 75, edge_width |-> 2,
       thickness |-> 3, via_separation |-> "0",
       port_map |-> PyList(<< <<"P1", "IN">> >>),
       exclude_ports |-> PyScalar("P2"),
       3d_metals |-> PyList(<<"M1", "M2">>),
       recommended_memory |-> FALSE, label_depth |-> 1,
       simultaneous_frequencies |-> 2, parallel |-> -1,
       quasistatic |-> FALSE] }

(***************************************************************************)
(* momem_simcmd.__init__                                                   *)
(***************************************************************************)
\* mutant of ListArg: a value that is not a list is dropped
ListArgDropsScalar(kw, k) ==
    LET v == Get(kw, k, PyList(<< >>))
    IN  IF IsPyList(v) THEN v.list ELSE << >>

\* kwargs.get(k, []) if it is a list, else [kwargs.get(k)]
ListArg(kw, k) ==
    LET v == Get(kw, k, PyList(<< >>))
    IN  IF IsPyList(v) THEN v.list ELSE <<v.scalar>>

momem_simcmd(kw) ==
    [ sim                      |-> Get(kw, "sim", "sweep"),
      impedance                |-> Get(kw, "impedance", 50),
      swpstart                 |-> GetOpt(kw, "swpstart"),
      swpstop                  |-> GetOpt(kw, "swpstop"),
      swpstep                  |-> GetOpt(kw, "swpstep"),
      swpvalues                |-> ListArg(kw, "swpvalues"),
      edge_width               |-> Get(kw, "edge_width", 1),
      thickness                |-> Get(kw, "thickness", 1),
      via_separation           |-> Get(kw, "via_separation", "0.5"),
      edge_mesh                |-> Get(kw, "edge_mesh", TRUE),
      mesh_cells               |-> Get(kw, "mesh_cells", 30),
      TL_mesh_cells            |-> Get(kw, "TL_mesh_cells", 0),
      port_map                 |-> ListArg(kw, "port_map"),
      exclude_ports            |-> ListArg(kw, "exclude_ports"),
      multid_metals            |-> ListArg(kw, "3d_metals"),
      recommended_memory       |-> Get(kw, "recommended_memory", TRUE),
      label_depth              |-> Get(kw, "label_depth", 0),
      simultaneous_frequencies |-> Get(kw, "simultaneous_frequencies", 0),
      parallel                 |-> Get(kw, "parallel", 0),
      quasistatic              |-> Get(kw, "quasistatic", TRUE) ]

\* mutant of BundleNew: an entry of the same name is kept
BundleNewKeepsFirst(members, n, val) ==
    IF \E i \in DOMAIN members : members[i].name = n
    THEN members
    ELSE Append(members, [name |-> n, val |-> val])

\* Bundle.new(name, val): Members[name] = val on an insertion-ordered dict
BundleNew(members, n, val) ==
    IF \E i \in DOMAIN members : members[i].name = n
    THEN [i \in DOMAIN members |->
             IF members[i].name = n THEN [name |-> n, val |-> val] ELSE members[i]]
    ELSE Append(members, [name |-> n, val |-> val])

(***************************************************************************)
(* Logging and exceptions.                                                 *)
(***************************************************************************)
\* print_log(type=t, msg=m) appends one entry
Logged(l, t, m) == Append(l, [type |-> t, msg |-> m])

\* the call in progress ends with exception e
Raise(e) == pc' = "raised" /\ exc' = e

(***************************************************************************)
(* momem.has_lsf and momem.momem_submission                                *)
(***************************************************************************)
\* the value the has_lsf getter computes
HasLsfValue == GLOBALS.LSFINTERACTIVE # "" /\ GLOBALS.LSFINTERACTIVE # ""

\* the getters of the boolean options: the value set, else the default False
BoolGetter(o) == IF IsNone(o) THEN FALSE ELSE o[1]

\* mutant of SubmissionValue: interactive mode wins over distributed mode
SubmissionValueInteractiveFirst(lsf, interactive, distributed) ==
    IF ~lsf THEN ""
    ELSE IF interactive
         THEN GLOBALS.LSFINTERACTIVE \o " "
         ELSE GLOBALS.LSFSUBMISSION \o " -o " \o simpath \o "/bsublog.txt "

\* the prefix the momem_submission getter computes when none was set
SubmissionValue(lsf, interactive, distributed) ==
    IF ~lsf THEN ""
    ELSE IF interactive
         THEN IF ~distributed
              THEN GLOBALS.LSFINTERACTIVE \o " "
              ELSE GLOBALS.LSFSUBMISSION \o " -o " \o simpath \o "/bsublog.txt "
         ELSE GLOBALS.LSFSUBMISSION \o " -o " \o simpath \o "/bsublog.txt "

\* whether the getter's branch reads self.momemsimpath
SubmissionReadsSimpath(lsf, interactive, distributed) ==
    lsf /\ (~interactive \/ distributed)

\* the momemsimpath getter: the first read deletes and recreates the directory
MomemsimpathFiles(wasSet, fs) == IF wasSet THEN fs ELSE {}

(***************************************************************************)
(* Initial states: an entity after construction and configuration.         *)
(***************************************************************************)
\* a cell name that holds the workspace placeholder of the template
PlaceholderCellname == <<"c", "WORKSPACE_placeholder">>

\* the properties of momem that have a setter
Properties ==
    {"name", "libname", "cellname", "preserve_momemfiles", "distributed_run",
     "num_processes", "interactive_momem"}

\* no setter was called yet
NoneAssigned == [p \in Properties |-> None]

\* no constructor or accessor was called yet
NoCall == [op |-> "none"]

\* the attributes an entity may have assigned that the classes do not define
EntityAttrs(m) ==
    CASE m = "ads" -> {"ads_submission", "result_filename"}
      [] m = "emx" -> {"surface_metals"}
      [] OTHER -> {}

Init ==
    /\ model \in Models
    /\ load_state \in {"", "saved"}
    /\ environ \in Environments
    /\ GLOBALS \in LsfValues
    /\ linkScript \in BOOLEAN
    /\ entityAttrs \in SUBSET EntityAttrs(model)
    /\ model # "ads" => linkScript
    /\ environ # AllEnvVars => linkScript /\ entityAttrs = EntityAttrs(model)
    /\ ~linkScript => entityAttrs = EntityAttrs(model)
    /\ model = "py" => environ = AllEnvVars
    /\ preserve_momemfiles \in {None, Some(TRUE)}
    /\ distributed_run \in {None, Some(TRUE)}
    /\ interactive_momem \in {None, Some(TRUE)}
    /\ num_processes = None
    /\ nameAttr = Some(DefaultName)
    /\ libnameAttr = Some(DefaultName)
    /\ cellnameAttr \in {Some(DefaultName), Some(PlaceholderCellname)}
    /\ cellnameAttr # Some(DefaultName)
          => /\ model = "ads" /\ load_state = "" /\ environ = AllEnvVars
             /\ linkScript /\ entityAttrs = EntityAttrs(model)
             /\ GLOBALS = [LSFINTERACTIVE |-> "", LSFSUBMISSION |-> ""]
    /\ assigned = NoneAssigned
    /\ lastCall = NoCall
    /\ momem_submission = None
    /\ has_lsf = None
    /\ momemsimpathSet = FALSE
    /\ simcmd_bundle = << >>
    /\ nSimcmd = 0
    /\ files = {}
    /\ srcfiles = {}
    /\ emStateFile = None
    /\ executed = << >>
    /\ log = << >>
    /\ pc = "idle"
    /\ idx = 0
    /\ exc = ""
    /\ events = << >>
    /\ extracts = None
    /\ filesAtRead = {}

(***************************************************************************)
(* Operations of the entity before the run.                                *)
(***************************************************************************)
\* momem_simcmd(self, **kw): constructs the command and attaches it to the bundle
NewSimcmd ==
    /\ pc = "idle"
    /\ nSimcmd < MaxSimcmd
    /\ \E kw \in KwargsInputs :
          LET val == momem_simcmd(kw)
          IN  /\ simcmd_bundle' = BundleNew(simcmd_bundle, val.sim, val)
              /\ lastCall' = [op |-> "momem_simcmd", kw |-> kw, ret |-> val]
    /\ nSimcmd' = nSimcmd + 1
    /\ UNCHANGED <<model, load_state, environ, GLOBALS, linkScript, entityAttrs,
                   preserve_momemfiles, distributed_run, interactive_momem,
                   momem_submission, has_lsf, momemsimpathSet, files, srcfiles,
                   emStateFile, executed, log, pc, idx, exc, events, extracts,
                   filesAtRead, num_processes, nameAttr, libnameAttr,
                   cellnameAttr, assigned>>

\* a read of the property momem_submission that was not set before
GetMomemSubmission ==
    /\ pc = "idle"
    /\ IsNone(momem_submission)
    /\ LET lsf  == HasLsfValue
           int  == BoolGetter(interactive_momem)
           dis  == BoolGetter(distributed_run)
           path == SubmissionReadsSimpath(lsf, int, dis)
       IN  /\ has_lsf' = Some(lsf)
           /\ interactive_momem' = IF lsf THEN Some(int) ELSE interactive_momem
           /\ distributed_run' = IF lsf /\ int THEN Some(dis) ELSE distributed_run
           /\ momem_submission' = Some(SubmissionValue(lsf, int, dis))
           /\ log' = IF lsf /\ int /\ dis
                     THEN Logged(log, "W", "Cannot run in interactive mode")
                     ELSE log
           /\ momemsimpathSet' = (momemsimpathSet \/ path)
           /\ files' = IF path THEN MomemsimpathFiles(momemsimpathSet, files) ELSE files
           /\ lastCall' = [op |-> "get", prop |-> "momem_submission",
                           ret |-> SubmissionValue(lsf, int, dis)]
    /\ UNCHANGED <<model, load_state, environ, GLOBALS, linkScript, entityAttrs,
                   preserve_momemfiles, simcmd_bundle, nSimcmd, srcfiles,
                   emStateFile, executed, pc, idx, exc, events, extracts,
                   filesAtRead, num_processes, nameAttr, libnameAttr,
                   cellnameAttr, assigned>>

(***************************************************************************)
(* Variable groups left alone by the steps of the run.                     *)
(***************************************************************************)
entityVars == <<model, load_state, environ, GLOBALS, linkScript, entityAttrs,
                simcmd_bundle, nSimcmd, num_processes, nameAttr, libnameAttr,
                cellnameAttr, assigned, lastCall>>

lsfVars == <<distributed_run, interactive_momem, momem_submission, has_lsf>>

\* one external command: its tool, its words and whether it succeeded
Command(tool, words, ok) == [tool |-> tool, words |-> words, ok |-> ok]

(***************************************************************************)
(* momem.run_momem: entry, and the momem_simulator getter.                 *)
(***************************************************************************)
\* mutant of RunsSimulator: load_state is not looked at
RunsSimulatorAlways == TRUE

\* whether run_momem calls momem_simulator.run()
RunsSimulator == load_state = ""

RunMomem ==
    /\ pc = "idle"
    /\ IF RunsSimulator
       THEN IF model \in {"emx", "ads"}
            THEN /\ pc' = model \o ".check_env"
                 /\ events' = events \o <<"run_momem.call", "run.call">>
                 /\ UNCHANGED <<log, exc>>
            ELSE /\ log' = Logged(log, "F", "Unsupported simulator")
                 /\ events' = Append(events, "run_momem.call")
                 /\ Raise("SystemExit")
       ELSE /\ pc' = "read"
            /\ events' = Append(events, "run_momem.call")
            /\ UNCHANGED <<log, exc>>
    /\ UNCHANGED <<entityVars, lsfVars, preserve_momemfiles, momemsimpathSet,
                   files, srcfiles, emStateFile, executed, idx, extracts,
                   filesAtRead>>

(***************************************************************************)
(* ads.run                                                                 *)
(***************************************************************************)
\* mutant of AdsCheckedVars: EMSTATEFILE is not checked
AdsCheckedVarsNoStateFile == {"VIRTUOSO_DIR", "ADSSUBSTRATEFILE"}

\* the variables ads.check_environment_variables reads from os.environ
AdsCheckedVars == {"VIRTUOSO_DIR", "ADSSUBSTRATEFILE", "EMSTATEFILE"}

AdsCheckEnvironmentVariables ==
    /\ pc = "ads.check_env"
    /\ IF AdsCheckedVars \subseteq environ
       THEN pc' = "ads.configure" /\ exc' = exc
       ELSE Raise("KeyError")
    /\ UNCHANGED <<entityVars, lsfVars, preserve_momemfiles, momemsimpathSet,
                   files, srcfiles, emStateFile, executed, log, idx, events,
                   extracts, filesAtRead>>

\* the pristine emStateFile.xml template ($EMSTATEFILE). A text is a sequence
\* of atoms: a number is held digit by digit, a tag or a placeholder word is
\* one atom
Template ==
    << "<fstart>", "1", "1", "1", "1", "1", "</fstart>",
       "<fstop>", "2", "2", "2", "2", "2", "</fstop>",
       "<fstep>", "1", "2", "1", "2", "</fstep>",
       "<ptsFreq>19</ptsFreq>", "<EdgeMeshEnabled>True</EdgeMeshEnabled>",
       "<TLMesh>", "4", "4", "4", "4", "4", "</TLMesh>",
       "<TLMeshEnabled>True</TLMeshEnabled>",
       "<mesh>", "3", "3", "3", "3", "3", "</mesh>",
       "<cell>", "CELL_placeholder", "</cell>",
       "<lib>", "WORKSPACE_placeholder", "_lib", "</lib>",
       "<workspace>", "WORKSPACE_placeholder", "</workspace>" >>

\* what link_oa_design.sh leaves in the workspace directory
LinkOutputs == {File(<<"l", "i", "b", ".", "d", "e", "f", "s">>)}

DataDir == Dir(<<"d", "a", "t", "a">>)

InitAel == File(<<"i", "n", "i", "t", ".", "a", "e", "l">>)

\* the files configure_environment creates in emsetupsrcpath before the copy
EmSetupFiles == {"emSetup", "master.tag", "eesof_em_setup.file"}

AdsConfigureEnvironment ==
    /\ pc = "ads.configure"
    /\ IF ~linkScript
       THEN /\ log' = Logged(log, "F", "You need link_oa_design script")
            /\ Raise("SystemExit")
            /\ UNCHANGED <<momemsimpathSet, files, srcfiles, emStateFile,
                           executed, idx>>
       ELSE IF ~({"VIRTUOSO_DIR", "ADSSUBSTRATEFILE"} \subseteq environ)
       THEN /\ Raise("KeyError")
            /\ UNCHANGED <<momemsimpathSet, files, srcfiles, emStateFile,
                           executed, idx, log>>
       ELSE \E ok \in BOOLEAN :
            LET fs == MomemsimpathFiles(momemsimpathSet, files)
                cmd == Command("link_oa_design",
                               <<"link_oa_design.sh", "-l",
                                 "VIRTUOSO_DIR/" \o Join(libname), "-t",
                                 "ADSSUBSTRATEFILE", "-w", simpath>>, ok)
            IN  /\ momemsimpathSet' = TRUE
                /\ executed' = Append(executed, cmd)
                /\ log' = log
                /\ IF ~ok
                   THEN /\ Raise("CalledProcessError")
                        /\ files' = fs
                        /\ UNCHANGED <<srcfiles, emStateFile, idx>>
                   ELSE IF "EMSTATEFILE" \notin environ
                   THEN /\ Raise("KeyError")
                        /\ files' = fs \cup LinkOutputs
                        /\ srcfiles' = srcfiles \cup EmSetupFiles
                        /\ UNCHANGED <<emStateFile, idx>>
                   ELSE /\ files' = fs \cup LinkOutputs \cup {DataDir, InitAel}
                        /\ srcfiles' = srcfiles \cup EmSetupFiles
                                                \cup {"emStateFile.xml"}
                        /\ emStateFile' = Some(Template)
                        /\ idx' = 1
                        /\ pc' = "ads.set_options"
                        /\ exc' = exc
    /\ UNCHANGED <<entityVars, lsfVars, preserve_momemfiles, events, extracts,
                   filesAtRead>>

\* sed s/pat/rep/g on a text of atoms: leftmost, non-overlapping, no rescan
RECURSIVE SedSubst(_, _, _)
SedSubst(text, pat, rep) ==
    IF Len(text) < Len(pat) THEN text
    ELSE IF SubSeq(text, 1, Len(pat)) = pat
         THEN rep \o SedSubst(SubSeq(text, Len(pat) + 1, Len(text)), pat, rep)
         ELSE <<text[1]>> \o SedSubst(Tail(text), pat, rep)

\* sed -e script[1] -e script[2] ...: the expressions are applied in order
RECURSIVE SedScript(_, _)
SedScript(text, script) ==
    IF script = << >> THEN text
    ELSE SedScript(SedSubst(text, script[1][1], script[1][2]), Tail(script))

\* str(True), str(False)
BoolStr(b) == IF b THEN "True" ELSE "False"

\* np.round(a / b): to the nearest integer, a tie to the even one (b # 0)
RECURSIVE RoundDiv(_, _)
RoundDiv(a, b) ==
    IF b < 0 THEN RoundDiv(-a, -b)
    ELSE LET q == a \div b
             r == a % b
         IN  IF 2 * r < b THEN q
             ELSE IF 2 * r > b THEN q + 1
             ELSE IF q % 2 = 0 THEN q ELSE q + 1

\* the sed expressions of set_simulation_options for one simulation command
SedExpressions(val) ==
    LET stop_freq == val.swpstop[1]
        step_freq == val.swpstep[1]
        freq_points == RoundDiv(stop_freq, step_freq) + 1
        TL_mesh_enable == val.TL_mesh_cells > 0
    IN  << << <<"2", "2", "2", "2", "2">>, Digits(stop_freq) >>,
           << <<"1", "2", "1", "2">>, Digits(step_freq) >>,
           << <<"<ptsFreq>19</ptsFreq>">>,
              <<"<ptsFreq>">> \o Digits(freq_points) \o <<"</ptsFreq>">> >>,
           << <<"<EdgeMeshEnabled>True</EdgeMeshEnabled>">>,
              <<"<EdgeMeshEnabled>", BoolStr(val.edge_mesh), "</EdgeMeshEnabled>">> >>,
           << <<"4", "4", "4", "4", "4">>, Digits(val.TL_mesh_cells) >>,
           << <<"<TLMeshEnabled>True</TLMeshEnabled>">>,
              <<"<TLMeshEnabled>", BoolStr(TL_mesh_enable), "</TLMeshEnabled>">> >>,
           << <<"3", "3", "3", "3", "3">>, Digits(val.mesh_cells) >>,
           << <<"CELL_placeholder">>, cellname >>,
           << <<"WORKSPACE_placeholder", "_lib">>, libname >>,
           << <<"WORKSPACE_placeholder">>, <<simpath>> >> >>

\* mutant of AdsRejectsSweep: a list of sweep values is not rejected
AdsRejectsSweepNoneOnly(val) == IsNone(val.swpstop) \/ IsNone(val.swpstep)

\* the sweep definitions set_simulation_options rejects with a fatal error
AdsRejectsSweep(val) ==
    \/ Len(val.swpvalues) > 0
    \/ IsNone(val.swpstop) \/ IsNone(val.swpstep)

\* whether set_simulation_options runs sed for the command
AdsRunsSed(val) == val.swpstop[1] # -1 /\ val.swpstep[1] # -1

\* one iteration of the loop of ads.set_simulation_options
AdsSetSimulationOptions ==
    /\ pc = "ads.set_options"
    /\ IF idx > Len(simcmd_bundle)
       THEN /\ pc' = "ads.generate_input"
            /\ UNCHANGED <<emStateFile, executed, log, idx, exc, momemsimpathSet,
                           files>>
       ELSE LET val == simcmd_bundle[idx].val
            IN  IF AdsRejectsSweep(val)
                THEN /\ log' = Logged(log, "F",
                                  IF Len(val.swpvalues) > 0
                                  THEN "Sweep values not supported for ADS"
                                  ELSE "Sweep stop and step values not given")
                     /\ Raise("SystemExit")
                     /\ UNCHANGED <<emStateFile, executed, idx, momemsimpathSet,
                                    files>>
                ELSE IF val.swpstep[1] = 0
                THEN /\ Raise("ZeroDivisionError")
                     /\ UNCHANGED <<emStateFile, executed, log, idx,
                                    momemsimpathSet, files>>
                ELSE IF ~AdsRunsSed(val)
                THEN /\ idx' = idx + 1
                     /\ UNCHANGED <<emStateFile, executed, log, pc, exc,
                                    momemsimpathSet, files>>
                ELSE \E ok \in BOOLEAN :
                     /\ executed' = Append(executed,
                            Command("sed", <<"sed", "-i", "emStateFile.xml">>, ok))
                     /\ momemsimpathSet' = TRUE
                     /\ files' = MomemsimpathFiles(momemsimpathSet, files)
                     /\ log' = log
                     /\ IF ok
                        THEN /\ emStateFile' =
                                   Some(SedScript(emStateFile[1], SedExpressions(val)))
                             /\ idx' = idx + 1
                             /\ UNCHANGED <<pc, exc>>
                        ELSE /\ Raise("CalledProcessError")
                             /\ UNCHANGED <<emStateFile, idx>>
    /\ UNCHANGED <<entityVars, lsfVars, preserve_momemfiles, srcfiles, events,
                   extracts, filesAtRead>>

\* the simulation input files "ads -nw -m init.ael" writes
AelOutputs == {File(<<"p", "r", "o", "j", ".", "p", "r", "t">>)}

AdsGenerateInputFiles ==
    /\ pc = "ads.generate_input"
    /\ \E ok \in BOOLEAN :
          /\ log' = IF InitAel \in files THEN log
                    ELSE Logged(log, "E", "The init.ael file does not exist")
          /\ executed' = Append(executed,
                 Command("ads", <<"cd", simpath, "&&", "ads", "-nw", "-m",
                                  "init.ael">>, ok))
          /\ IF ok
             THEN pc' = "ads.execute" /\ exc' = exc /\ files' = files \cup AelOutputs
             ELSE Raise("CalledProcessError") /\ files' = files
    /\ UNCHANGED <<entityVars, lsfVars, preserve_momemfiles, momemsimpathSet,
                   srcfiles, emStateFile, idx, events, extracts, filesAtRead>>

\* the value of ads.ads_submission when the entity assigned the attribute
\* (class ads defines no such attribute)
AssignedAdsSubmission == ""

\* ads.adscmd
adscmd ==
    <<"cd", simpath, "&&", AssignedAdsSubmission, "adsMomWrapper", "-O", "-3D",
      "--objMode=RF", "proj", "proj">>

ProjCti == File(<<"p", "r", "o", "j", ".", "c", "t", "i">>)

\* os.system(adscmd): the exit status is not looked at
AdsExecuteSim ==
    /\ pc = "ads.execute"
    /\ IF "ads_submission" \notin entityAttrs
       THEN Raise("AttributeError") /\ UNCHANGED <<executed, files>>
       ELSE \E ok \in BOOLEAN :
               /\ executed' = Append(executed, Command("adsMomWrapper", adscmd, ok))
               /\ files' = IF ok THEN files \cup {ProjCti} ELSE files
               /\ pc' = "ads.convert"
               /\ exc' = exc
    /\ UNCHANGED <<entityVars, lsfVars, preserve_momemfiles, momemsimpathSet,
                   srcfiles, emStateFile, log, idx, events, extracts,
                   filesAtRead>>

\* the value of parent.result_filename when the entity assigned the attribute
\* (class momem defines result_filenames only)
AssignedResultFilename == result_filenames

\* citi_to_touchstone.generate_contents: writes <output_file>.s<N>p from the
\* CITI file, for a two-port layout
CttOutputs(out) == {File(out \o <<".", "s", "2", "p">>)}

\* lines 207-210 of ads.run: the conversion of proj.cti
AdsConvert ==
    /\ pc = "ads.convert"
    /\ IF "result_filename" \notin entityAttrs
       THEN Raise("AttributeError") /\ UNCHANGED <<files, events>>
       ELSE IF ProjCti \notin files
       THEN Raise("FileNotFoundError") /\ UNCHANGED <<files, events>>
       ELSE /\ files' = files \cup CttOutputs(AssignedResultFilename)
            /\ events' = Append(events, "run.return")
            /\ pc' = "read"
            /\ exc' = exc
    /\ UNCHANGED <<entityVars, lsfVars, preserve_momemfiles, momemsimpathSet,
                   srcfiles, emStateFile, executed, log, idx, extracts,
                   filesAtRead>>

(***************************************************************************)
(* emx.run                                                                 *)
(***************************************************************************)
\* the variables emx.check_environment_variables reads from os.environ
EmxCheckedVars == {"VIRTUOSO_DIR", "EMX_PROC", "TECHLIB", "LAYERMAP_PATH"}

EmxCheckEnvironmentVariables ==
    /\ pc = "emx.check_env"
    /\ IF EmxCheckedVars \subseteq environ
       THEN pc' = "emx.generate_gds" /\ exc' = exc
       ELSE Raise("KeyError")
    /\ UNCHANGED <<entityVars, lsfVars, preserve_momemfiles, momemsimpathSet,
                   files, srcfiles, emStateFile, executed, log, idx, events,
                   extracts, filesAtRead>>

\* emx.gdscmd
gdscmd ==
    <<"cd", "VIRTUOSO_DIR", "&&", "strmout", "-library", Join(libname),
      "-strmFile", InSimpath(result_filenames) \o ".gds", "-rundir",
      "VIRTUOSO_DIR", "-topCell", Join(cellname), "-view", "layout",
      "-techLib", "TECHLIB", "-layermap", "LAYERMAP_PATH", "-logFile",
      simpath \o "/strmOut.log", "-summaryFile", simpath \o "/gds_summary.log",
      "-verbose", "-pinAttNum", "2">>

\* what strmout writes: the -strmFile, the -logFile and the -summaryFile
GdsOutputs ==
    { File(result_filenames \o <<".", "g", "d", "s">>),
      File(<<"s", "t", "r", "m", "O", "u", "t", ".", "l", "o", "g">>),
      File(<<"g", "d", "s", "_", "s", "u", "m", "m", "a", "r", "y", ".", "l", "o", "g">>) }

EmxGenerateGds ==
    /\ pc = "emx.generate_gds"
    /\ IF "VIRTUOSO_DIR" \notin environ
       THEN Raise("KeyError") /\ UNCHANGED <<momemsimpathSet, files, executed>>
       ELSE IF ~({"TECHLIB", "LAYERMAP_PATH"} \subseteq environ)
       THEN /\ Raise("KeyError")
            /\ momemsimpathSet' = TRUE
            /\ files' = MomemsimpathFiles(momemsimpathSet, files)
            /\ UNCHANGED executed
       ELSE \E ok \in BOOLEAN :
            /\ momemsimpathSet' = TRUE
            /\ executed' = Append(executed, Command("strmout", gdscmd, ok))
            /\ IF ok
               THEN /\ files' = MomemsimpathFiles(momemsimpathSet, files)
                                   \cup GdsOutputs
                    /\ pc' = "emx.execute"
                    /\ exc' = exc
               ELSE /\ files' = MomemsimpathFiles(momemsimpathSet, files)
                    /\ Raise("CalledProcessError")
    /\ UNCHANGED <<entityVars, lsfVars, preserve_momemfiles, srcfiles,
                   emStateFile, log, idx, events, extracts, filesAtRead>>

\* f' {value}' for every value of a list
ValueWords(vs) == [i \in DOMAIN vs |-> ToStr(vs[i])]

\* ' -p <port>=<net> -i <port>' for every entry of port_map
RECURSIVE PortWords(_)
PortWords(pm) ==
    IF pm = << >> THEN << >>
    ELSE <<"-p", pm[1][1] \o "=" \o pm[1][2], "-i", pm[1][1]>> \o PortWords(Tail(pm))

\* ' --exclude <port>' for every entry of exclude_ports
RECURSIVE ExcludeWords(_)
ExcludeWords(ps) ==
    IF ps = << >> THEN << >>
    ELSE <<"--exclude", ps[1]>> \o ExcludeWords(Tail(ps))

\* the list joined as the loops of lines 160-164 do: a comma after every
\* value that is not equal to the last one
RECURSIVE CommaJoin(_, _)
CommaJoin(vs, last) ==
    IF vs = << >> THEN ""
    ELSE (IF vs[1] = last THEN vs[1] ELSE vs[1] \o ",") \o CommaJoin(Tail(vs), last)

\* the sweep definitions emxcmd rejects with a fatal error
EmxRejectsSweep(val) ==
    IF val.sim = "sweep"
    THEN /\ Len(val.swpvalues) = 0
         /\ (IsNone(val.swpstart) \/ IsNone(val.swpstop) \/ IsNone(val.swpstep))
    ELSE TRUE

\* the words emxcmd adds for the sweep of an accepted command
SweepWords(val) ==
    IF Len(val.swpvalues) > 0
    THEN ValueWords(val.swpvalues)
    ELSE <<"--sweep", ToStr(val.swpstart[1]), ToStr(val.swpstop[1]),
           "--sweep-stepsize=" \o ToStr(val.swpstep[1])>>

\* the value of a simulation command's surface_metals when the entity assigned
\* the attribute (momem_simcmd.__init__ does not set it)
AssignedSurfaceMetals == << >>

\* the command emxcmd builds for one accepted simulation command
EmxCmd(val) ==
    <<"emx", InSimpath(result_filenames) \o ".gds", Join(cellname), "EMX_PROC",
      "--discrete-frequency=0", "--discrete-frequency=1e3",
      "--discrete-frequency=1e6", "--accuracy=high",
      "--edge-width=" \o ToStr(val.edge_width),
      "--thickness=" \o ToStr(val.thickness),
      "--via-separation=" \o val.via_separation,
      "--simultaneous-frequencies=" \o ToStr(val.simultaneous_frequencies),
      "--parallel=" \o ToStr(val.parallel),
      "--label-depth=" \o ToStr(val.label_depth)>>
    \o (IF val.quasistatic THEN <<"--quasistatic">> ELSE <<"--full-wave">>)
    \o (IF val.recommended_memory THEN <<"--recommended-memory">> ELSE << >>)
    \o SweepWords(val)
    \o <<"--s-impedance=" \o ToStr(val.impedance), "--touchstone",
         "--s-file=" \o InSimpath(result_filenames) \o ".s%np">>
    \o PortWords(val.port_map)
    \o ExcludeWords(val.exclude_ports)
    \o (IF Len(val.multid_metals) > 0
        THEN <<"--3d=" \o CommaJoin(val.multid_metals,
                                    val.multid_metals[Len(val.multid_metals)])>>
        ELSE <<"--3d=*">>)
    \o (IF Len(AssignedSurfaceMetals) > 0
        THEN <<"--surface=" \o CommaJoin(AssignedSurfaceMetals,
                          AssignedSurfaceMetals[Len(AssignedSurfaceMetals)])>>
        ELSE << >>)
    \o <<"--cadence-pins=2", "--log-file=" \o InSimpath(result_filenames) \o ".log",
         "--print-command-line", "--verbose=1">>

\* the warnings of the first k simulation commands that give no port_map
RECURSIVE PortMapWarnings(_, _)
PortMapWarnings(members, k) ==
    IF k = 0 THEN << >>
    ELSE PortMapWarnings(members, k - 1)
         \o (IF Len(members[k].val.port_map) = 0
             THEN <<[type |-> "W", msg |-> "Port mapping not given"]>>
             ELSE << >>)

\* the first simulation command of the bundle that emxcmd rejects, 0 when none
FirstRejected(members) ==
    LET R == {i \in DOMAIN members : EmxRejectsSweep(members[i].val)}
    IN  IF R = {} THEN 0 ELSE CHOOSE i \in R : \A j \in R : i <= j

\* one evaluation of the property emx.emxcmd: the exception it ends with
\* ("" when it returns), the entries it logs and the command it returns
emxcmd ==
    LET n == Len(simcmd_bundle)
        k == FirstRejected(simcmd_bundle)
        fatal(i) == [type |-> "F",
                     msg |-> IF simcmd_bundle[i].val.sim = "sweep"
                             THEN "Sweep start/stop/step OR sweep values not given"
                             ELSE "Invalid simulation type for momem"]
    IN  IF n = 0
        THEN [exc |-> "AttributeError", log |-> << >>, cmd |-> << >>]
        ELSE IF "EMX_PROC" \notin environ
        THEN [exc |-> "KeyError", log |-> << >>, cmd |-> << >>]
        ELSE IF "surface_metals" \notin entityAttrs
        THEN IF k = 1
             THEN [exc |-> "SystemExit", log |-> <<fatal(1)>>, cmd |-> << >>]
             ELSE [exc |-> "AttributeError",
                   log |-> PortMapWarnings(simcmd_bundle, 1), cmd |-> << >>]
        ELSE IF k # 0
        THEN [exc |-> "SystemExit",
              log |-> PortMapWarnings(simcmd_bundle, k - 1) \o <<fatal(k)>>,
              cmd |-> << >>]
        ELSE [exc |-> "", log |-> PortMapWarnings(simcmd_bundle, n),
              cmd |-> EmxCmd(simcmd_bundle[n].val)]

\* the entries execute_emx_simulation logs in its except branch
SimulationFailed ==
    << [type |-> "E", msg |-> "traceback"],
       [type |-> "F", msg |-> "Running simulation failed."] >>

\* what emx writes: the --s-file of a two-port layout and the --log-file
EmxOutputs ==
    { File(result_filenames \o <<".", "s", "2", "p">>),
      File(result_filenames \o <<".", "l", "o", "g">>) }

\* emx.execute_emx_simulation, the last step of emx.run
EmxExecuteSimulation ==
    /\ pc = "emx.execute"
    /\ LET got == emxcmd
       IN  IF got.exc # ""
           THEN /\ log' = log \o got.log \o SimulationFailed
                /\ Raise("SystemExit")
                /\ UNCHANGED <<executed, files, events>>
           ELSE \E ok \in BOOLEAN :
                /\ executed' = Append(executed, Command("emx", got.cmd, ok))
                /\ IF ok
                   THEN /\ log' = log \o got.log \o got.log
                        /\ files' = files \cup EmxOutputs
                        /\ events' = Append(events, "run.return")
                        /\ pc' = "read"
                        /\ exc' = exc
                   ELSE /\ log' = log \o got.log \o got.log \o SimulationFailed
                        /\ Raise("SystemExit")
                        /\ UNCHANGED <<files, events>>
    /\ UNCHANGED <<entityVars, lsfVars, preserve_momemfiles, momemsimpathSet,
                   srcfiles, emStateFile, idx, extracts, filesAtRead>>

(***************************************************************************)
(* momem.read_simulation_results                                           *)
(***************************************************************************)
\* glob.glob(f"{momemsimpath}/{result_filenames}.s*p")
ResultGlob(fs) ==
    {f \in fs : GlobMatch(f.name, result_filenames \o <<".", "s">>, <<"p">>)}

ReadSimulationResults ==
    /\ pc = "read"
    /\ momemsimpathSet' = TRUE
    /\ files' = MomemsimpathFiles(momemsimpathSet, files)
    /\ IF ResultGlob(files') = {}
       THEN \* IndexError; the except branch then reads the unbound filename
            /\ log' = Logged(log, "W", "traceback")
            /\ events' = Append(events, "read.call")
            /\ Raise("UnboundLocalError")
            /\ UNCHANGED <<extracts, filesAtRead>>
       ELSE \E f \in ResultGlob(files'), ok \in BOOLEAN :
            IF ok /\ ~f.dir
            THEN /\ extracts' = Some(f.name)
                 /\ events' = events \o <<"read.call", "read.return">>
                 /\ filesAtRead' = files'
                 /\ pc' = "preserve"
                 /\ UNCHANGED <<log, exc>>
            ELSE /\ log' = log \o << [type |-> "W", msg |-> "traceback"],
                                     [type |-> "W", msg |-> "Something went wrong"],
                                     [type |-> "F", msg |-> "Available results"] >>
                 /\ events' = Append(events, "read.call")
                 /\ Raise("SystemExit")
                 /\ UNCHANGED <<extracts, filesAtRead>>
    /\ UNCHANGED <<entityVars, lsfVars, preserve_momemfiles, srcfiles,
                   emStateFile, executed, idx>>

(***************************************************************************)
(* momem.run_momem, lines 368-369, and momem.cleanup_momemsimpath          *)
(***************************************************************************)
\* mutant of CallsCleanup: preserve_momemfiles is not looked at
CallsCleanupAlways(preserve) == TRUE

\* whether run_momem calls cleanup_momemsimpath
CallsCleanup(preserve) == ~preserve

PreserveCheck ==
    /\ pc = "preserve"
    /\ preserve_momemfiles' = Some(BoolGetter(preserve_momemfiles))
    /\ IF CallsCleanup(BoolGetter(preserve_momemfiles))
       THEN pc' = "cleanup" /\ events' = Append(events, "cleanup.call")
       ELSE pc' = "returned" /\ events' = Append(events, "run_momem.return")
    /\ UNCHANGED <<entityVars, lsfVars, momemsimpathSet, files, srcfiles,
                   emStateFile, executed, log, idx, exc, extracts, filesAtRead>>

\* the test of line 265 on an extension that is not empty
KeepsExtension(ext) == ext[Len(ext)] = "p" /\ "s" \in Range(ext)

\* the entries "rm -f" is run on: all but the S-parameter files
RmTargets(fs) ==
    {f \in fs : SplitextExt(f.name) # << >> /\ ~KeepsExtension(SplitextExt(f.name))}

\* the entries on which file_extension[-1] raises IndexError
NoExtension(fs) == {f \in fs : SplitextExt(f.name) = << >>}

\* "rm -f <path>" removes a file and leaves a directory
RmF(fs, targets) == fs \ {f \in targets : ~f.dir}

CleanupMomemsimpath ==
    /\ pc = "cleanup"
    /\ momemsimpathSet' = TRUE
    /\ LET fs == MomemsimpathFiles(momemsimpathSet, files)
       IN  IF NoExtension(fs) = {}
           THEN /\ files' = RmF(fs, RmTargets(fs))
                /\ pc' = "returned"
                /\ events' = events \o <<"cleanup.return", "run_momem.return">>
                /\ exc' = exc
           ELSE \* os.listdir gives the entries in any order: those before
                \* the first one without extension were handled
                \E done \in SUBSET RmTargets(fs) :
                   /\ files' = RmF(fs, done)
                   /\ Raise("IndexError")
                   /\ events' = events
    /\ UNCHANGED <<entityVars, lsfVars, preserve_momemfiles, srcfiles,
                   emStateFile, executed, log, idx, extracts, filesAtRead>>

(***************************************************************************)
(* The specification of an entity that configures itself and runs once.    *)
(***************************************************************************)
Next ==
    \/ NewSimcmd
    \/ GetMomemSubmission
    \/ RunMomem
    \/ AdsCheckEnvironmentVariables
    \/ AdsConfigureEnvironment
    \/ AdsSetSimulationOptions
    \/ AdsGenerateInputFiles
    \/ AdsExecuteSim
    \/ AdsConvert
    \/ EmxCheckEnvironmentVariables
    \/ EmxGenerateGds
    \/ EmxExecuteSimulation
    \/ ReadSimulationResults
    \/ PreserveCheck
    \/ CleanupMomemsimpath

Spec == Init /\ [][Next]_vars

(***************************************************************************)
(* cleanup_momemsimpath called on a simulation directory of any content.   *)
(***************************************************************************)
\* entries a simulation directory may hold
CleanupEntries ==
    { File(result_filenames \o <<".", "s", "2", "p">>),
      File(result_filenames \o <<".", "g", "d", "s">>),
      File(<<"s", "t", "r", "m", "O", "u", "t", ".", "l", "o", "g">>),
      File(<<"b", "s", "u", "b", "l", "o", "g", ".", "t", "x", "t">>),
      File(<<"a", ".", "s", "p">>),
      File(<<"p", "r", "o", "j">>),
      File(<<".", "n", "f", "s">>),
      DataDir,
      Dir(<<"w", ".", "l", "i", "b">>) }

InitCleanup ==
    /\ model \in {"ads", "emx"}
    /\ load_state = ""
    /\ environ = AllEnvVars
    /\ GLOBALS = [LSFINTERACTIVE |-> "", LSFSUBMISSION |-> ""]
    /\ linkScript = TRUE
    /\ entityAttrs = {}
    /\ preserve_momemfiles = None
    /\ distributed_run = None
    /\ interactive_momem = None
    /\ num_processes = None
    /\ nameAttr = None
    /\ libnameAttr = None
    /\ cellnameAttr = None
    /\ assigned = NoneAssigned
    /\ lastCall = NoCall
    /\ momem_submission = None
    /\ has_lsf = None
    /\ momemsimpathSet \in BOOLEAN
    /\ simcmd_bundle = << >>
    /\ nSimcmd = 0
    /\ files \in SUBSET CleanupEntries
    /\ srcfiles = {}
    /\ emStateFile = None
    /\ executed = << >>
    /\ log = << >>
    /\ pc = "cleanup"
    /\ idx = 0
    /\ exc = ""
    /\ events = << >>
    /\ extracts = None
    /\ filesAtRead = {}

NextCleanup == CleanupMomemsimpath

SpecCleanup == InitCleanup /\ [][NextCleanup]_vars

(***************************************************************************)
(* The configuration accessors of momem, called on an entity before a run. *)
(***************************************************************************)
\* a number given to a setter: an integer (den = 1) or a fraction
PyNumber(n, d) == [num |-> n, den |-> d]

\* int(value): the fraction part is cut off, towards zero
PyInt(v) == IF v.num >= 0 THEN v.num \div v.den ELSE -((-v.num) \div v.den)

\* the default of num_processes
DefaultNumProcesses == 10

\* values given to the setters
NameInputs == {<<"y">>}

LibnameInputs == {<<"l">>}

CellnameInputs == {<<"c">>}

NumberInputs == {PyNumber(4, 1), PyNumber(27, 10), PyNumber(-27, 10)}

\* what an accessor call leaves alone besides the other properties
configRest ==
    <<model, load_state, environ, GLOBALS, linkScript, entityAttrs,
      momem_submission, has_lsf, momemsimpathSet, simcmd_bundle, nSimcmd,
      files, srcfiles, emStateFile, executed, log, pc, idx, exc, events,
      extracts, filesAtRead>>

\* a getter returned r
Got(p, r) == lastCall' = [op |-> "get", prop |-> p, ret |-> r]

\* a setter was given v
Given(p, v) ==
    /\ lastCall' = [op |-> "set", prop |-> p, value |-> v]
    /\ assigned' = [assigned EXCEPT ![p] = Some(v)]

\* the getter of name: the name of the class file unless one was set
GetName ==
    /\ pc = "idle"
    /\ nameAttr' = Some(name)
    /\ Got("name", name)
    /\ UNCHANGED assigned
    /\ UNCHANGED <<libnameAttr, cellnameAttr, preserve_momemfiles,
                   distributed_run, num_processes, interactive_momem, configRest>>

SetName ==
    /\ pc = "idle"
    /\ \E v \in NameInputs :
          /\ nameAttr' = Some(v)
          /\ Given("name", v)
    /\ UNCHANGED <<libnameAttr, cellnameAttr, preserve_momemfiles,
                   distributed_run, num_processes, interactive_momem, configRest>>

\* the getter of libname: the first read of an unset libname stores self.name
GetLibname ==
    /\ pc = "idle"
    /\ libnameAttr' = Some(libname)
    /\ nameAttr' = IF IsNone(libnameAttr) THEN Some(name) ELSE nameAttr
    /\ Got("libname", libname)
    /\ UNCHANGED assigned
    /\ UNCHANGED <<cellnameAttr, preserve_momemfiles, distributed_run,
                   num_processes, interactive_momem, configRest>>

SetLibname ==
    /\ pc = "idle"
    /\ \E v \in LibnameInputs :
          /\ libnameAttr' = Some(v)
          /\ Given("libname", v)
    /\ UNCHANGED <<nameAttr, cellnameAttr, preserve_momemfiles,
                   distributed_run, num_processes, interactive_momem, configRest>>

\* the getter of cellname: the first read of an unset cellname stores self.name
GetCellname ==
    /\ pc = "idle"
    /\ cellnameAttr' = Some(cellname)
    /\ nameAttr' = IF IsNone(cellnameAttr) THEN Some(name) ELSE nameAttr
    /\ Got("cellname", cellname)
    /\ UNCHANGED assigned
    /\ UNCHANGED <<libnameAttr, preserve_momemfiles, distributed_run,
                   num_processes, interactive_momem, configRest>>

SetCellname ==
    /\ pc = "idle"
    /\ \E v \in CellnameInputs :
          /\ cellnameAttr' = Some(v)
          /\ Given("cellname", v)
    /\ UNCHANGED <<nameAttr, libnameAttr, preserve_momemfiles,
                   distributed_run, num_processes, interactive_momem, configRest>>

GetPreserveMomemfiles ==
    /\ pc = "idle"
    /\ preserve_momemfiles' = Some(BoolGetter(preserve_momemfiles))
    /\ Got("preserve_momemfiles", BoolGetter(preserve_momemfiles))
    /\ UNCHANGED assigned
    /\ UNCHANGED <<nameAttr, libnameAttr, cellnameAttr,
                   distributed_run, num_processes, interactive_momem, configRest>>

SetPreserveMomemfiles ==
    /\ pc = "idle"
    /\ \E v \in BOOLEAN :
          /\ preserve_momemfiles' = Some(v)
          /\ Given("preserve_momemfiles", v)
    /\ UNCHANGED <<nameAttr, libnameAttr, cellnameAttr,
                   distributed_run, num_processes, interactive_momem, configRest>>

GetDistributedRun ==
    /\ pc = "idle"
    /\ distributed_run' = Some(BoolGetter(distributed_run))
    /\ Got("distributed_run", BoolGetter(distributed_run))
    /\ UNCHANGED assigned
    /\ UNCHANGED <<nameAttr, libnameAttr, cellnameAttr,
                   preserve_momemfiles, num_processes, interactive_momem, configRest>>

SetDistributedRun ==
    /\ pc = "idle"
    /\ \E v \in BOOLEAN :
          /\ distributed_run' = Some(v)
          /\ Given("distributed_run", v)
    /\ UNCHANGED <<nameAttr, libnameAttr, cellnameAttr,
                   preserve_momemfiles, num_processes, interactive_momem, configRest>>

\* the value the getter of num_processes returns
NumProcessesValue ==
    IF IsNone(num_processes) THEN DefaultNumProcesses ELSE num_processes[1]

GetNumProcesses ==
    /\ pc = "idle"
    /\ num_processes' = Some(NumProcessesValue)
    /\ Got("num_processes", NumProcessesValue)
    /\ UNCHANGED assigned
    /\ UNCHANGED <<nameAttr, libnameAttr, cellnameAttr,
                   preserve_momemfiles, distributed_run, interactive_momem, configRest>>

SetNumProcesses ==
    /\ pc = "idle"
    /\ \E v \in NumberInputs :
          /\ num_processes' = Some(PyInt(v))
          /\ Given("num_processes", v)
    /\ UNCHANGED <<nameAttr, libnameAttr, cellnameAttr,
                   preserve_momemfiles, distributed_run, interactive_momem, configRest>>

GetInteractiveMomem ==
    /\ pc = "idle"
    /\ interactive_momem' = Some(BoolGetter(interactive_momem))
    /\ Got("interactive_momem", BoolGetter(interactive_momem))
    /\ UNCHANGED assigned
    /\ UNCHANGED <<nameAttr, libnameAttr, cellnameAttr,
                   preserve_momemfiles, distributed_run, num_processes, configRest>>

SetInteractiveMomem ==
    /\ pc = "idle"
    /\ \E v \in BOOLEAN :
          /\ interactive_momem' = Some(v)
          /\ Given("interactive_momem", v)
    /\ UNCHANGED <<nameAttr, libnameAttr, cellnameAttr,
                   preserve_momemfiles, distributed_run, num_processes, configRest>>

\* a new entity on a host with LSF
InitConfig ==
    /\ model = "emx"
    /\ load_state = ""
    /\ environ = AllEnvVars
    /\ GLOBALS = [LSFINTERACTIVE |-> "bsub -I", LSFSUBMISSION |-> "bsub -K"]
    /\ linkScript = TRUE
    /\ entityAttrs = {}
    /\ preserve_momemfiles = None
    /\ distributed_run = None
    /\ interactive_momem = None
    /\ num_processes = None
    /\ nameAttr = None
    /\ libnameAttr = None
    /\ cellnameAttr = None
    /\ assigned = NoneAssigned
    /\ lastCall = NoCall
    /\ momem_submission = None
    /\ has_lsf = None
    /\ momemsimpathSet = FALSE
    /\ simcmd_bundle = << >>
    /\ nSimcmd = 0
    /\ files = {}
    /\ srcfiles = {}
    /\ emStateFile = None
    /\ executed = << >>
    /\ log = << >>
    /\ pc = "idle"
    /\ idx = 0
    /\ exc = ""
    /\ events = << >>
    /\ extracts = None
    /\ filesAtRead = {}

NextConfig ==
    \/ GetName
    \/ SetName
    \/ GetLibname
    \/ SetLibname
    \/ GetCellname
    \/ SetCellname
    \/ GetPreserveMomemfiles
    \/ SetPreserveMomemfiles
    \/ GetDistributedRun
    \/ SetDistributedRun
    \/ GetNumProcesses
    \/ SetNumProcesses
    \/ GetInteractiveMomem
    \/ SetInteractiveMomem
    \/ GetMomemSubmission

SpecConfig == InitConfig /\ [][NextConfig]_vars

(***************************************************************************)
(* Properties.                                                             *)
(***************************************************************************)
\* position of the first occurrence of an event, 0 when it did not happen
Pos(e) ==
    LET P == {i \in DOMAIN events : events[i] = e}
    IN  IF P = {} THEN 0 ELSE CHOOSE i \in P : \A j \in P : i <= j

\* number of occurrences of an event
Count(e) == Cardinality({i \in DOMAIN events : events[i] = e})

Happened(e) == Pos(e) # 0

\* the external commands that start a simulator
SimulatorTools == {"emx", "adsMomWrapper"}

\* C1: run_momem orders its steps. With load_state = '' the simulator's run()
\* has returned before read_simulation_results starts; with load_state set,
\* run() is never called and no external command is executed; and
\* read_simulation_results has returned before cleanup_momemsimpath is called.
C1_RunMomemOrder ==
    /\ (load_state = "" /\ Happened("read.call"))
          => (Happened("run.return") /\ Pos("run.return") < Pos("read.call"))
    /\ load_state # "" => (~Happened("run.call") /\ executed = << >>)
    /\ Happened("cleanup.call")
          => (Happened("read.return") /\ Pos("read.return") < Pos("cleanup.call"))
    /\ files # filesAtRead /\ Happened("read.return") => Happened("cleanup.call")

\* C1 witness: a run with load_state = '' that simulated, read and cleaned up
C1_Witness ==
    /\ load_state = ""
    /\ pc = "returned"
    /\ Happened("cleanup.return")
    /\ files # filesAtRead

\* the value of the option preserve_momemfiles that run_momem acted on
PreserveRead == BoolGetter(preserve_momemfiles)

\* run_momem got past the test of preserve_momemfiles
PastPreserveCheck == Happened("read.return") /\ pc # "preserve"

\* C2: once run_momem is past the test of preserve_momemfiles: if it is True,
\* cleanup_momemsimpath was not called and the directory holds exactly the
\* entries it held when the results were read; if it is False, cleanup was
\* called exactly once, after read_simulation_results returned.
C2_PreserveOrCleanupOnce ==
    /\ Count("cleanup.call") <= 1
    /\ PastPreserveCheck =>
          IF PreserveRead
          THEN ~Happened("cleanup.call") /\ files = filesAtRead
          ELSE /\ Count("cleanup.call") = 1
               /\ Pos("read.return") < Pos("cleanup.call")

\* C2 witness: run_momem returned with preserve_momemfiles True, the
\* directory still holding entries a cleanup would have removed
C2_Witness ==
    /\ pc = "returned"
    /\ preserve_momemfiles = Some(TRUE)
    /\ RmTargets(files) # {}

\* a Touchstone file name: extension .s<N>p with N a number
IsTouchstone(n) ==
    LET ext == SplitextExt(n)
    IN  /\ Len(ext) >= 4
        /\ ext[1] = "." /\ ext[2] = "s" /\ ext[Len(ext)] = "p"
        /\ \A i \in 3..(Len(ext) - 1) :
              ext[i] \in {"0", "1", "2", "3", "4", "5", "6", "7", "8", "9"}

\* C3: a call of cleanup_momemsimpath returns normally, and afterwards the
\* directory holds only Touchstone result files (extension .s<N>p).
C3_CleanupLeavesTouchstoneOnly ==
    pc \in {"returned", "raised"}
       => /\ exc = ""
          /\ \A f \in files : ~f.dir /\ IsTouchstone(f.name)

\* the prefix the parent's momem_submission holds or would compute
ParentSubmission ==
    IF IsNone(momem_submission)
    THEN SubmissionValue(HasLsfValue, BoolGetter(interactive_momem),
                         BoolGetter(distributed_run))
    ELSE momem_submission[1]

\* the word of a command in front of its executable, '' when the executable
\* starts the (sub)command
PrefixBefore(words, exe) ==
    LET i == CHOOSE k \in DOMAIN words : words[k] = exe
    IN  IF i = 1 \/ words[i - 1] = "&&" THEN "" ELSE words[i - 1]

\* C4: every simulator command executed holds, directly before the simulator
\* executable, the parent's momem_submission prefix when has_lsf is True, and
\* an empty prefix when has_lsf is False.
C4_SimulatorCommandHasPrefix ==
    \A i \in DOMAIN executed :
       executed[i].tool \in SimulatorTools
          => PrefixBefore(executed[i].words, executed[i].tool)
                = (IF HasLsfValue THEN ParentSubmission ELSE "")

C6_HasLsfBothPrefixes ==
    ~IsNone(has_lsf) =>
       has_lsf[1] = (GLOBALS.LSFINTERACTIVE # "" /\ GLOBALS.LSFSUBMISSION # "")

\* the run of the simulator was entered and is over (returned or raised)
RunEnded(m) ==
    /\ model = m
    /\ Happened("run.call")
    /\ pc \notin {m \o ".check_env", m \o ".configure", m \o ".set_options",
                  m \o ".generate_input", m \o ".execute", m \o ".convert",
                  m \o ".generate_gds"}

\* no external command that was executed failed
NoCommandFailed == \A i \in DOMAIN executed : executed[i].ok

\* C7: for model 'ads', with the environment set up and every sweep given by
\* swpstop and swpstep, a run() whose external commands all succeed completes
\* the conversion and leaves a Touchstone file tb_<name>.s<N>p in momemsimpath
\* that the glob of read_simulation_results finds.
C7_AdsRunConverts ==
    ( /\ RunEnded("ads")
      /\ AdsEnvVars \subseteq environ
      /\ linkScript
      /\ \A i \in DOMAIN simcmd_bundle :
            LET val == simcmd_bundle[i].val
            IN  Len(val.swpvalues) = 0 /\ ~IsNone(val.swpstop) /\ ~IsNone(val.swpstep)
      /\ NoCommandFailed )
       => /\ Happened("run.return")
          /\ \E f \in ResultGlob(files) : IsTouchstone(f.name)

\* the state run() may have changed: nothing executed, created or modified
RunLeftNoTrace ==
    /\ executed = << >>
    /\ files = {}
    /\ srcfiles = {}
    /\ emStateFile = None
    /\ momemsimpathSet => ~IsNone(momem_submission)

\* the environment variables run() needs, as documented
RequiredVars(m) ==
    IF m = "ads" THEN {"VIRTUOSO_DIR", "ADSSUBSTRATEFILE", "EMSTATEFILE"}
    ELSE {"VIRTUOSO_DIR", "EMX_PROC", "TECHLIB", "LAYERMAP_PATH"}

\* C8: when a required environment variable is missing, run() ends in its
\* first step with KeyError, and whenever run() ends with KeyError no external
\* command was executed and no file was created or modified.
C8_MissingVariableStopsFirst ==
    /\ \A m \in {"ads", "emx"} :
          (RunEnded(m) /\ ~(RequiredVars(m) \subseteq environ))
             => (pc = "raised" /\ exc = "KeyError")
    /\ (pc = "raised" /\ exc = "KeyError") => RunLeftNoTrace

\* C8 witness: the ads run ended with KeyError for a missing EMSTATEFILE
C8_Witness ==
    /\ RunEnded("ads")
    /\ "EMSTATEFILE" \notin environ
    /\ pc = "raised" /\ exc = "KeyError"

\* C9: when a simulator command failed, an E or F entry is logged and the run
\* does not go on to the conversion or to reading the results.
C9_SimulatorFailureLoggedAndStops ==
    (\E i \in DOMAIN executed :
        executed[i].tool \in SimulatorTools /\ ~executed[i].ok)
       => /\ \E j \in DOMAIN log : log[j].type \in {"E", "F"}
          /\ pc = "raised"
          /\ ~Happened("run.return")

\* the sweep definitions ADS does not support, as documented
UnsupportedSweep(val) ==
    Len(val.swpvalues) > 0 \/ IsNone(val.swpstop) \/ IsNone(val.swpstep)

\* set_simulation_options is about to handle simulation command idx
AtSimcmd ==
    pc = "ads.set_options" /\ idx \in DOMAIN simcmd_bundle

\* C10: when set_simulation_options handles a simulation command with
\* swpvalues given, or with swpstop or swpstep None, it logs a fatal error and
\* stops; emStateFile.xml is not modified, no sed is executed and no other
\* exception is raised.
C10_AdsRejectsUnsupportedSweep ==
    [][ (AtSimcmd /\ UnsupportedSweep(simcmd_bundle[idx].val))
           => /\ emStateFile' = emStateFile
              /\ executed' = executed
              /\ Len(log') = Len(log) + 1
              /\ log'[Len(log')].type = "F"
              /\ pc' = "raised" /\ exc' = "SystemExit" ]_vars

\* C10 witness: the loop stopped with the fatal error at a simulation command
\* that gives swpvalues, after the template was copied
C10_Witness ==
    /\ model = "ads"
    /\ pc = "raised" /\ exc = "SystemExit"
    /\ idx \in DOMAIN simcmd_bundle
    /\ Len(simcmd_bundle[idx].val.swpvalues) > 0
    /\ emStateFile # None
    /\ log # << >> /\ log[Len(log)].msg = "Sweep values not supported for ADS"

\* words holds the words of sub next to each other and in order
Contains(words, sub) ==
    \E i \in 0..(Len(words) - Len(sub)) :
       SubSeq(words, i + 1, i + Len(sub)) = sub

\* a simulation command the EMX documentation does not accept: not a sweep,
\* or a sweep given neither by values nor by start, stop and step
EmxUnsupported(val) ==
    \/ val.sim # "sweep"
    \/ /\ val.swpvalues = << >>
       /\ (IsNone(val.swpstart) \/ IsNone(val.swpstop) \/ IsNone(val.swpstep))

\* the '--sweep' form of a command's sweep
SweepForm(val) ==
    <<"--sweep", ToStr(val.swpstart[1]), ToStr(val.swpstop[1]),
      "--sweep-stepsize=" \o ToStr(val.swpstep[1])>>

\* C11: when emxcmd is read, a simulation command that is not a sweep, or a
\* sweep with no swpvalues and one of swpstart, swpstop, swpstep None, makes it
\* log a fatal error; otherwise emxcmd returns a command that holds the
\* elements of swpvalues in order and no '--sweep' when swpvalues is not
\* empty, and '--sweep <swpstart> <swpstop> --sweep-stepsize=<swpstep>' when
\* it is empty; never both forms.
C11_EmxSweepForms ==
    (pc = "emx.execute" /\ simcmd_bundle # << >> /\ "EMX_PROC" \in environ) =>
       LET got == emxcmd
           val == simcmd_bundle[Len(simcmd_bundle)].val
           fatal == \E j \in DOMAIN got.log : got.log[j].type = "F"
           swept == \E j \in DOMAIN got.cmd : got.cmd[j] = "--sweep"
       IN  IF \E i \in DOMAIN simcmd_bundle : EmxUnsupported(simcmd_bundle[i].val)
           THEN fatal
           ELSE /\ got.exc = ""
                /\ ~fatal
                /\ IF val.swpvalues # << >>
                   THEN Contains(got.cmd, ValueWords(val.swpvalues)) /\ ~swept
                   ELSE Contains(got.cmd, SweepForm(val))

\* the case of C11 in which the entity gave every simulation command the
\* attribute surface_metals that line 167 reads
C11_WithSurfaceMetals ==
    "surface_metals" \in entityAttrs => C11_EmxSweepForms

\* Members.get(n): the entry of a bundle under a name (option)
Member(members, n) ==
    LET I == {i \in DOMAIN members : members[i].name = n}
    IN  IF I = {} THEN None ELSE Some(members[CHOOSE i \in I : TRUE].val)

\* the names under which one of two bundles holds an entry
MemberNames(a, b) ==
    {a[i].name : i \in DOMAIN a} \cup {b[i].name : i \in DOMAIN b}

\* the step is a construction momem_simcmd(parent, ...)
Constructs == nSimcmd' = nSimcmd + 1

\* C12: the bundle of a new entity is empty and holds one entry per name; a
\* construction of momem_simcmd leaves the object just created in
\* simcmd_bundle.Members[sim] and every entry under another name as it was;
\* and no other step changes the bundle.
C12_ConstructionAttaches ==
    /\ [](/\ nSimcmd = 0 => simcmd_bundle = << >>
          /\ \A i, j \in DOMAIN simcmd_bundle :
                simcmd_bundle[i].name = simcmd_bundle[j].name => i = j
          /\ lastCall.op = "momem_simcmd"
                => Member(simcmd_bundle, lastCall.ret.sim) = Some(lastCall.ret))
    /\ [][ IF Constructs
           THEN /\ lastCall'.op = "momem_simcmd"
                /\ Member(simcmd_bundle', lastCall'.ret.sim) = Some(lastCall'.ret)
                /\ \A n \in MemberNames(simcmd_bundle, simcmd_bundle') :
                      n # lastCall'.ret.sim
                         => Member(simcmd_bundle', n) = Member(simcmd_bundle, n)
           ELSE simcmd_bundle' = simcmd_bundle ]_vars

\* C12 witness: a second construction with the same sim replaced the entry of
\* the first one by a different object
C12_Witness ==
    /\ nSimcmd = 2
    /\ Len(simcmd_bundle) = 1
    /\ lastCall.op = "momem_simcmd"
    /\ simcmd_bundle[1].val = lastCall.ret
    /\ lastCall.ret.swpvalues = <<3>>

\* the documented defaults of the parameters that are stored as given
DocumentedDefaults ==
    [ sim |-> "sweep", impedance |-> 50, edge_width |-> 1, thickness |-> 1,
      via_separation |-> "0.5", edge_mesh |-> TRUE, mesh_cells |-> 30,
      TL_mesh_cells |-> 0, recommended_memory |-> TRUE, label_depth |-> 0,
      simultaneous_frequencies |-> 0, parallel |-> 0, quasistatic |-> TRUE ]

\* the parameters whose default is None
OptionalParameters == {"swpstart", "swpstop", "swpstep"}

\* the list parameters: <<attribute, keyword>>
ListParameters ==
    { <<"swpvalues", "swpvalues">>, <<"port_map", "port_map">>,
      <<"exclude_ports", "exclude_ports">>, <<"multid_metals", "3d_metals">> }

\* C13: the object a construction returns has exactly the documented
\* parameters; each equals the keyword argument given, else its default (None
\* for swpstart, swpstop and swpstep); swpvalues, port_map, exclude_ports and
\* multid_metals are [] when omitted, the list given when a list is given and
\* a one-element list of the value given otherwise.
C13_ParametersAndDefaults ==
    lastCall.op = "momem_simcmd" =>
       LET kw == lastCall.kw
           obj == lastCall.ret
       IN  /\ DOMAIN obj = DOMAIN DocumentedDefaults \cup OptionalParameters
                              \cup {lp[1] : lp \in ListParameters}
           /\ \A p \in DOMAIN DocumentedDefaults :
                 obj[p] = IF p \in DOMAIN kw THEN kw[p] ELSE DocumentedDefaults[p]
           /\ \A p \in OptionalParameters :
                 obj[p] = IF p \in DOMAIN kw THEN <<kw[p]>> ELSE << >>
           /\ \A lp \in ListParameters :
                 obj[lp[1]] = IF lp[2] \notin DOMAIN kw THEN << >>
                              ELSE IF "list" \in DOMAIN kw[lp[2]]
                                   THEN kw[lp[2]].list
                                   ELSE <<kw[lp[2]].scalar>>

\* C13 witness: a construction given a scalar swpvalues and exclude_ports, a
\* list 3d_metals and no mesh_cells
C13_Witness ==
    /\ lastCall.op = "momem_simcmd"
    /\ "mesh_cells" \notin DOMAIN lastCall.kw
    /\ "swpvalues" \in DOMAIN lastCall.kw
    /\ lastCall.kw.swpvalues = PyScalar(3)
    /\ lastCall.ret.swpvalues = <<3>>
    /\ lastCall.ret.exclude_ports = <<"P2">>
    /\ lastCall.ret.multid_metals = <<"M1", "M2">>
    /\ lastCall.ret.mesh_cells = 30
    /\ lastCall.ret.swpstart = None

\* what the getter of each property would return
PropertyValues ==
    [ name |-> name, libname |-> libname, cellname |-> cellname,
      preserve_momemfiles |-> BoolGetter(preserve_momemfiles),
      distributed_run |-> BoolGetter(distributed_run),
      num_processes |-> NumProcessesValue,
      interactive_momem |-> BoolGetter(interactive_momem) ]

\* the last call was a read of property p
Read(p) == lastCall.op = "get" /\ lastCall.prop = p

\* a read of a property that was set returned the value last assigned
ReturnsAssigned ==
    \A p \in Properties :
       (Read(p) /\ ~IsNone(assigned[p]))
          => lastCall.ret = IF p = "num_processes" THEN PyInt(assigned[p][1])
                            ELSE assigned[p][1]

\* a read of a boolean option or of num_processes that was never set returned
\* the documented default
ReturnsOptionDefault ==
    /\ \A p \in {"preserve_momemfiles", "distributed_run", "interactive_momem"} :
          (Read(p) /\ IsNone(assigned[p])) => lastCall.ret = FALSE
    /\ (Read("num_processes") /\ IsNone(assigned["num_processes"]))
          => lastCall.ret = 10

\* a read of libname or cellname that was never set returned name
ReturnsNameDefault ==
    \A p \in {"libname", "cellname"} :
       (Read(p) /\ IsNone(assigned[p])) => lastCall.ret = name

\* a getter call leaves the value of every other property as it was
GetterKeepsOthers ==
    lastCall'.op = "get" =>
       \A q \in Properties \ {lastCall'.prop} :
          PropertyValues'[q] = PropertyValues[q]

\* C14: a read of a property that was never set returns the documented
\* default (False for preserve_momemfiles, distributed_run and
\* interactive_momem, 10 for num_processes, name for libname and cellname); a
\* read of a property that was set returns the value last assigned (int(value)
\* for num_processes); and a getter call never changes the value of another
\* property.
C14_LazyDefaults ==
    /\ [](ReturnsOptionDefault /\ ReturnsNameDefault /\ ReturnsAssigned)
    /\ [][GetterKeepsOthers]_vars

\* the part of C14 that is not about the default of libname and cellname
C14_ExceptNameDefault ==
    /\ [](ReturnsOptionDefault /\ ReturnsAssigned)
    /\ [][GetterKeepsOthers]_vars

\* the atoms of a text between a tag and the closing tag that follows it
Field(text, open, close) ==
    LET a == CHOOSE i \in DOMAIN text : text[i] = open
        b == CHOOSE j \in (a + 1)..Len(text) :
                /\ text[j] = close
                /\ \A k \in (a + 1)..(j - 1) : text[k] # close
    IN  SubSeq(text, a + 1, b - 1)

\* set_simulation_options has run sed for the first simulation command, on
\* the template as configure_environment copied it
FirstSedDone ==
    /\ pc = "ads.set_options" /\ idx = 2
    /\ simcmd_bundle[1].val.swpstop[1] # -1
    /\ simcmd_bundle[1].val.swpstep[1] # -1

\* the values of the first simulation command
FirstSimcmd == simcmd_bundle[1].val

\* no value written to the file holds a placeholder that is substituted later
NoPlaceholderInValues ==
    /\ ~Contains(Digits(FirstSimcmd.swpstop[1]), <<"1", "2", "1", "2">>)
    /\ cellname # PlaceholderCellname

\* every placeholder of the file holds the value meant for it: 22222 swpstop,
\* 1212 swpstep, 33333 mesh_cells, 44444 TL_mesh_cells, CELL_placeholder
\* cellname, WORKSPACE_placeholder_lib libname and WORKSPACE_placeholder
\* momemsimpath; libname is not replaced by momemsimpath followed by '_lib'
EveryPlaceholderHoldsItsValue ==
       LET text == emStateFile[1]
       IN  /\ Field(text, "<fstop>", "</fstop>") = Digits(FirstSimcmd.swpstop[1])
           /\ Field(text, "<fstep>", "</fstep>") = Digits(FirstSimcmd.swpstep[1])
           /\ Field(text, "<mesh>", "</mesh>") = Digits(FirstSimcmd.mesh_cells)
           /\ Field(text, "<TLMesh>", "</TLMesh>") = Digits(FirstSimcmd.TL_mesh_cells)
           /\ Field(text, "<cell>", "</cell>") = cellname
           /\ Field(text, "<lib>", "</lib>") = libname
           /\ Field(text, "<lib>", "</lib>") # <<simpath, "_lib">>
           /\ Field(text, "<workspace>", "</workspace>") = <<simpath>>

\* C15: whenever set_simulation_options ran sed on the pristine template for
\* a simulation command with swpstop and swpstep different from -1, every
\* placeholder of the file holds exactly its intended value, for all values,
\* those whose text holds a placeholder that is substituted later included.
C15_PlaceholdersHoldValues == FirstSedDone => EveryPlaceholderHoldsItsValue

\* the case of C15 in which no value holds a placeholder
C15_PlainValues ==
    FirstSedDone => (NoPlaceholderInValues => EveryPlaceholderHoldsItsValue)

\* the case of C15 in which only the cell name holds a placeholder
C15_PlainNumbers ==
    FirstSedDone =>
       (~Contains(Digits(FirstSimcmd.swpstop[1]), <<"1", "2", "1", "2">>)
           => EveryPlaceholderHoldsItsValue)

====
